---- MODULE Spec2Model ----
(***************************************************************************)
(* Model of iptoux/tokentools: the Home component of src/app/page.tsx      *)
(* (input -> parsed JSON -> output strings -> exact-tokenization effect)   *)
(* and the POST handler of src/app/api/tokenize/route.ts.                  *)
(*                                                                         *)
(* A text is a sequence of one-character strings.  A parsed JSON value is  *)
(* a tagged record:                                                        *)
(*   [t |-> "null"]  [t |-> "bool", b]  [t |-> "num", n]  [t |-> "str", s] *)
(*   [t |-> "arr", a |-> <<values>>]                                       *)
(*   [t |-> "obj", o |-> <<[k |-> key text, v |-> value], ...>>]           *)
(***************************************************************************)
EXTENDS Integers, Sequences, FiniteSets, TLC

\* ------------------------------------------------------------------ bounds

\* Most exact-tokenization requests the effect issues in one behaviour.
MaxRequests == 2

\* Longest string given to the text functions (in characters)
MaxTextLen == 3

\* ------------------------------------------------------------------- texts

RECURSIVE Concat(_)
Concat(ss) == IF ss = <<>> THEN <<>> ELSE Head(ss) \o Concat(Tail(ss))

\* Array.prototype.join(sep) on a sequence of texts.
RECURSIVE Join(_, _)
Join(ss, sep) ==
  IF ss = <<>> THEN <<>>
  ELSE IF Len(ss) = 1 THEN ss[1]
  ELSE ss[1] \o sep \o Join(Tail(ss), sep)

\* String.prototype.split("\n"): always at least one piece.
RECURSIVE SplitNl(_)
SplitNl(s) ==
  IF \A i \in 1..Len(s) : s[i] # "\n" THEN <<s>>
  ELSE LET i == CHOOSE j \in 1..Len(s) :
                  s[j] = "\n" /\ \A k \in 1..(j - 1) : s[k] # "\n"
       IN <<SubSeq(s, 1, i - 1)>> \o SplitNl(SubSeq(s, i + 1, Len(s)))

\* "  ".repeat(n)
RECURSIVE Spaces(_)
Spaces(n) == IF n <= 0 THEN <<>> ELSE <<" ", " ">> \o Spaces(n - 1)

Digits == <<"0", "1", "2", "3", "4", "5", "6", "7", "8", "9">>

IsDigit(c) == \E d \in 1..10 : Digits[d] = c

DigitVal(c) == (CHOOSE d \in 1..10 : Digits[d] = c) - 1

\* String(n) for a non-negative integer.
RECURSIVE NumText(_)
NumText(n) == IF n < 10 THEN <<Digits[n + 1]>>
              ELSE NumText(n \div 10) \o <<Digits[(n % 10) + 1]>>

\* The whitespace String.prototype.trim() and JSON.parse skip (the model's
\* texts use the space and the line feed).
IsWs(c) == c \in {" ", "\n", "\t", "\r"}

\* !input.trim()
IsBlank(s) == \A i \in 1..Len(s) : IsWs(s[i])

\* ------------------------------------------------------------- JSON.parse

EndMsg == "Unexpected end of JSON input"

TokenMsg == "Unexpected token in JSON"

Fail(m) == [ok |-> FALSE, msg |-> m]

Ok(v, i) == [ok |-> TRUE, val |-> v, next |-> i]

RECURSIVE SkipWs(_, _)
SkipWs(s, i) == IF i <= Len(s) /\ IsWs(s[i]) THEN SkipWs(s, i + 1) ELSE i

\* The digits of a number starting at i: [n, next].
RECURSIVE ScanDigits(_, _, _)
ScanDigits(s, i, acc) ==
  IF i <= Len(s) /\ IsDigit(s[i]) THEN ScanDigits(s, i + 1, acc * 10 + DigitVal(s[i]))
  ELSE [n |-> acc, next |-> i]

\* Whether text w stands in s at position i.
Matches(s, i, w) ==
  /\ i + Len(w) - 1 <= Len(s)
  /\ \A k \in 1..Len(w) : s[i + k - 1] = w[k]

\* A string literal whose opening quote is at i: its characters up to the
\* closing quote (the model's texts hold no escapes; a backslash is rejected).
ParseStringAt(s, i) ==
  IF \A j \in (i + 1)..Len(s) : s[j] # "\"" THEN Fail(EndMsg)
  ELSE LET j == CHOOSE q \in (i + 1)..Len(s) :
                  s[q] = "\"" /\ \A k \in (i + 1)..(q - 1) : s[k] # "\""
           body == SubSeq(s, i + 1, j - 1)
       IN IF \E k \in 1..Len(body) : body[k] \in {"\\", "\n"} THEN Fail(TokenMsg)
          ELSE Ok([t |-> "str", s |-> body], j + 1)

\* Object property definition: a repeated key keeps its first position and
\* takes the last value.
PutEntry(es, k, v) ==
  IF \E i \in 1..Len(es) : es[i].k = k
  THEN [i \in 1..Len(es) |-> IF es[i].k = k THEN [k |-> k, v |-> v] ELSE es[i]]
  ELSE Append(es, [k |-> k, v |-> v])

RECURSIVE ParseValue(_, _)
RECURSIVE ParseElements(_, _, _)
RECURSIVE ParseMembers(_, _, _)

\* After "{" or "[" and whitespace, at position j.
ObjectBody(s, j) ==
  IF j > Len(s) THEN Fail(EndMsg)
  ELSE IF s[j] = "}" THEN Ok([t |-> "obj", o |-> <<>>], j + 1)
  ELSE ParseMembers(s, j, <<>>)

ArrayBody(s, j) ==
  IF j > Len(s) THEN Fail(EndMsg)
  ELSE IF s[j] = "]" THEN Ok([t |-> "arr", a |-> <<>>], j + 1)
  ELSE ParseElements(s, j, <<>>)

NumberEnd(d) == Ok([t |-> "num", n |-> d.n], d.next)

\* The value starting at position i, which holds no whitespace.
ValueAt(s, i) ==
  IF i > Len(s) THEN Fail(EndMsg)
  ELSE IF s[i] = "{" THEN ObjectBody(s, SkipWs(s, i + 1))
  ELSE IF s[i] = "[" THEN ArrayBody(s, SkipWs(s, i + 1))
  ELSE IF s[i] = "\"" THEN ParseStringAt(s, i)
  ELSE IF IsDigit(s[i]) THEN
    IF s[i] = "0" /\ i + 1 <= Len(s) /\ IsDigit(s[i + 1]) THEN Fail(TokenMsg)
    ELSE NumberEnd(ScanDigits(s, i, 0))
  ELSE IF Matches(s, i, <<"t", "r", "u", "e">>) THEN Ok([t |-> "bool", b |-> TRUE], i + 4)
  ELSE IF Matches(s, i, <<"f", "a", "l", "s", "e">>) THEN Ok([t |-> "bool", b |-> FALSE], i + 5)
  ELSE IF Matches(s, i, <<"n", "u", "l", "l">>) THEN Ok([t |-> "null"], i + 4)
  ELSE Fail(TokenMsg)

\* The value starting at position i (leading whitespace skipped).
ParseValue(s, i) == ValueAt(s, SkipWs(s, i))

\* After an array element r, at position j: "," and more, or "]".
ElementEnd(s, r, j, acc) ==
  IF j > Len(s) THEN Fail(EndMsg)
  ELSE IF s[j] = "," THEN ParseElements(s, j + 1, Append(acc, r.val))
  ELSE IF s[j] = "]" THEN Ok([t |-> "arr", a |-> Append(acc, r.val)], j + 1)
  ELSE Fail(TokenMsg)

ElementParsed(s, r, acc) ==
  IF ~r.ok THEN r ELSE ElementEnd(s, r, SkipWs(s, r.next), acc)

\* Array elements from position i (an element is expected there).
ParseElements(s, i, acc) == ElementParsed(s, ParseValue(s, i), acc)

\* After a member's value r under key k, at position j: "," and more, or "}".
MemberEnd(s, k, r, j, acc) ==
  IF j > Len(s) THEN Fail(EndMsg)
  ELSE IF s[j] = "," THEN ParseMembers(s, j + 1, PutEntry(acc, k, r.val))
  ELSE IF s[j] = "}" THEN Ok([t |-> "obj", o |-> PutEntry(acc, k, r.val)], j + 1)
  ELSE Fail(TokenMsg)

MemberValue(s, k, r, acc) ==
  IF ~r.ok THEN r ELSE MemberEnd(s, k, r, SkipWs(s, r.next), acc)

\* After a member's key k, at position c: the colon and the value.
MemberColon(s, k, c, acc) ==
  IF c > Len(s) THEN Fail(EndMsg)
  ELSE IF s[c] # ":" THEN Fail(TokenMsg)
  ELSE MemberValue(s, k, ParseValue(s, c + 1), acc)

MemberKey(s, k, acc) ==
  IF ~k.ok THEN k ELSE MemberColon(s, k.val.s, SkipWs(s, k.next), acc)

MemberAt(s, i, acc) ==
  IF i > Len(s) THEN Fail(EndMsg)
  ELSE IF s[i] # "\"" THEN Fail(TokenMsg)
  ELSE MemberKey(s, ParseStringAt(s, i), acc)

\* Object members from position i (a key is expected there).
ParseMembers(s, i, acc) == MemberAt(s, SkipWs(s, i), acc)

\* No text but whitespace may follow the value.
WholeText(s, r) ==
  IF ~r.ok THEN r
  ELSE IF SkipWs(s, r.next) <= Len(s) THEN Fail(TokenMsg)
  ELSE r

\* JSON.parse(text): the value, or the SyntaxError's message.
JSONParse(s) == WholeText(s, ParseValue(s, 1))

\* ---------------------------------------------------------- JSON.stringify

Quote(s) == <<"\"">> \o s \o <<"\"">>

\* JSON.stringify of a string: quoted, with the quote and the backslash escaped.
RECURSIVE EscapeText(_)
EscapeText(s) ==
  IF s = <<>> THEN <<>>
  ELSE (IF Head(s) \in {"\"", "\\"} THEN <<"\\", Head(s)>> ELSE <<Head(s)>>)
       \o EscapeText(Tail(s))

JSONString(s) == Quote(EscapeText(s))

IsScalar(v) == v.t \notin {"arr", "obj"}

\* String(value) of null, a boolean or a number.
PrimText(v) ==
  IF v.t = "null" THEN <<"n", "u", "l", "l">>
  ELSE IF v.t = "bool" THEN (IF v.b THEN <<"t", "r", "u", "e">> ELSE <<"f", "a", "l", "s", "e">>)
  ELSE NumText(v.n)

\* JSON.stringify(value): no whitespace.
RECURSIVE StringifyMin(_)
StringifyMin(v) ==
  IF v.t = "str" THEN JSONString(v.s)
  ELSE IF v.t = "arr" THEN
    <<"[">> \o Join([i \in 1..Len(v.a) |-> StringifyMin(v.a[i])], <<",">>) \o <<"]">>
  ELSE IF v.t = "obj" THEN
    <<"{">> \o Join([i \in 1..Len(v.o) |->
                      JSONString(v.o[i].k) \o <<":">> \o StringifyMin(v.o[i].v)], <<",">>)
    \o <<"}">>
  ELSE PrimText(v)

\* JSON.stringify(value, null, 2) at nesting depth d.
RECURSIVE StringifyPretty(_, _)
StringifyPretty(v, d) ==
  IF v.t = "str" THEN JSONString(v.s)
  ELSE IF v.t = "arr" THEN
    IF v.a = <<>> THEN <<"[", "]">>
    ELSE <<"[", "\n">>
         \o Join([i \in 1..Len(v.a) |-> Spaces(d + 1) \o StringifyPretty(v.a[i], d + 1)],
                 <<",", "\n">>)
         \o <<"\n">> \o Spaces(d) \o <<"]">>
  ELSE IF v.t = "obj" THEN
    IF v.o = <<>> THEN <<"{", "}">>
    ELSE <<"{", "\n">>
         \o Join([i \in 1..Len(v.o) |->
                   Spaces(d + 1) \o JSONString(v.o[i].k) \o <<":", " ">>
                   \o StringifyPretty(v.o[i].v, d + 1)],
                 <<",", "\n">>)
         \o <<"\n">> \o Spaces(d) \o <<"}">>
  ELSE PrimText(v)

\* ------------------------------------------------------------ jsonToYamlLite

\* nested.replace(/\n/g, "\n" + pad)
RECURSIVE ReplaceNl(_, _)
ReplaceNl(s, pad) ==
  IF s = <<>> THEN <<>>
  ELSE (IF Head(s) = "\n" THEN <<"\n">> \o pad ELSE <<Head(s)>>) \o ReplaceNl(Tail(s), pad)

HasNl(s) == \E i \in 1..Len(s) : s[i] = "\n"

\* jsonToYamlLite whose array branch puts the following lines of a multi-line
\* element below the first one without indenting them.
RECURSIVE jsonToYamlLiteUnindented(_, _)
jsonToYamlLiteUnindented(value, indent) ==
  LET space == Spaces(indent) IN
  IF IsScalar(value) THEN
    IF value.t = "str" THEN JSONString(value.s) ELSE PrimText(value)
  ELSE IF value.t = "arr" THEN
    IF value.a = <<>> THEN <<"[", "]">>
    ELSE Join([i \in 1..Len(value.a) |->
                space \o <<"-", " ">> \o jsonToYamlLiteUnindented(value.a[i], indent + 1)],
              <<"\n">>)
  ELSE
    IF value.o = <<>> THEN <<"{", "}">>
    ELSE Join([i \in 1..Len(value.o) |->
                LET key == value.o[i].k
                    val == value.o[i].v
                    nested == jsonToYamlLiteUnindented(val, indent + 1)
                IN IF ~IsScalar(val)
                   THEN space \o key \o <<":", "\n">> \o Spaces(indent + 1)
                        \o ReplaceNl(nested, Spaces(indent + 1))
                   ELSE space \o key \o <<":", " ">> \o nested],
              <<"\n">>)

RECURSIVE jsonToYamlLite(_, _)
jsonToYamlLite(value, indent) ==
  LET space == Spaces(indent) IN
  IF IsScalar(value) THEN
    IF value.t = "str" THEN JSONString(value.s) ELSE PrimText(value)
  ELSE IF value.t = "arr" THEN
    IF value.a = <<>> THEN <<"[", "]">>
    ELSE Join([i \in 1..Len(value.a) |->
                LET item == value.a[i]
                    nested == jsonToYamlLite(item, indent + 1)
                    lines == SplitNl(nested)
                IN IF ~IsScalar(item) /\ HasNl(nested)
                   THEN space \o <<"-", " ">> \o lines[1] \o <<"\n">>
                        \o Join([j \in 1..(Len(lines) - 1) |-> <<" ", " ">> \o lines[j + 1]],
                                <<"\n">>)
                   ELSE space \o <<"-", " ">> \o nested],
              <<"\n">>)
  ELSE
    IF value.o = <<>> THEN <<"{", "}">>
    ELSE Join([i \in 1..Len(value.o) |->
                LET key == value.o[i].k
                    val == value.o[i].v
                    nested == jsonToYamlLite(val, indent + 1)
                IN IF ~IsScalar(val)
                   THEN space \o key \o <<":", "\n">> \o Spaces(indent + 1)
                        \o ReplaceNl(nested, Spaces(indent + 1))
                   ELSE space \o key \o <<":", " ">> \o nested],
              <<"\n">>)

\* ------------------------------------------- encodeToon (@toon-format/toon)
\* The library is imported, not part of the repository: the model encodes the
\* documented TOON layout for scalars, nested objects and arrays (inline for
\* scalar elements, one "- " item per line otherwise), and lets the call throw
\* when the environment says so.

Literals == {<<"t", "r", "u", "e">>, <<"f", "a", "l", "s", "e">>, <<"n", "u", "l", "l">>}

\* A string scalar is quoted when it could be read as something else.
ToonNeedsQuote(s, delimiter) ==
  \/ s = <<>>
  \/ s \in Literals
  \/ \A i \in 1..Len(s) : IsDigit(s[i])
  \/ s[1] \in {" ", "-"}
  \/ s[Len(s)] = " "
  \/ \E i \in 1..Len(s) :
       s[i] \in {delimiter, ":", "\"", "\\", "[", "]", "{", "}", "\n", "\t"}

ToonScalar(v, delimiter) ==
  IF v.t = "str"
  THEN (IF ToonNeedsQuote(v.s, delimiter) THEN JSONString(v.s) ELSE v.s)
  ELSE PrimText(v)

\* "[N]" with the comma, "[N|]" or "[N<tab>]" otherwise.
ToonHeader(n, delimiter) ==
  <<"[">> \o NumText(n) \o (IF delimiter = "," THEN <<>> ELSE <<delimiter>>) \o <<"]">>

\* Prefix every line of a text.
IndentLines(s, pad) == pad \o ReplaceNl(s, pad)

\* keyFolding "safe": a chain of single-key objects folds into a dotted key.
RECURSIVE ToonFold(_, _, _)
ToonFold(key, v, keyFolding) ==
  IF keyFolding = "safe" /\ v.t = "obj" /\ Len(v.o) = 1
  THEN ToonFold(key \o <<".">> \o v.o[1].k, v.o[1].v, keyFolding)
  ELSE [k |-> key, v |-> v]

RECURSIVE ToonValue(_, _, _, _)
\* A value under a key ("" at the root).
ToonValue(key, v, delimiter, keyFolding) ==
  IF IsScalar(v) THEN
    (IF key = <<>> THEN <<>> ELSE key \o <<":", " ">>) \o ToonScalar(v, delimiter)
  ELSE IF v.t = "arr" THEN
    IF \A i \in 1..Len(v.a) : IsScalar(v.a[i]) THEN
      key \o ToonHeader(Len(v.a), delimiter) \o <<":">>
      \o (IF v.a = <<>> THEN <<>>
          ELSE <<" ">> \o Join([i \in 1..Len(v.a) |-> ToonScalar(v.a[i], delimiter)],
                               <<delimiter>>))
    ELSE
      key \o ToonHeader(Len(v.a), delimiter) \o <<":", "\n">>
      \o Join([i \in 1..Len(v.a) |->
                <<" ", " ", "-", " ">>
                \o ReplaceNl(ToonValue(<<>>, v.a[i], delimiter, keyFolding),
                             <<" ", " ", " ", " ">>)],
              <<"\n">>)
  ELSE
    LET body == Join([i \in 1..Len(v.o) |->
                       LET f == ToonFold(v.o[i].k, v.o[i].v, keyFolding)
                       IN ToonValue(f.k, f.v, delimiter, keyFolding)],
                     <<"\n">>)
    IN IF key = <<>> THEN body
       ELSE IF v.o = <<>> THEN key \o <<":">>
       ELSE key \o <<":", "\n">> \o IndentLines(body, <<" ", " ">>)

encodeToon(parsed, delimiter, keyFolding) == ToonValue(<<>>, parsed, delimiter, keyFolding)

\* What a call inside useMemo's try block gives: a text, or an exception.
Returned(text) == [threw |-> FALSE, text |-> text, msg |-> ""]

Thrown(msg) == [threw |-> TRUE, text |-> <<>>, msg |-> msg]

\* toToonEncoding without its try/catch: the encoder's exception escapes.
toToonEncodingRethrows(parsed, delimiter, keyFolding, throws) ==
  IF throws THEN Thrown("TOON encoding failed")
  ELSE Returned(encodeToon(parsed, delimiter, keyFolding))

\* toToonEncoding: try { return encodeToon(...) || "" } catch { return "" }.
toToonEncoding(parsed, delimiter, keyFolding, throws) ==
  IF throws THEN Returned(<<>>) ELSE Returned(encodeToon(parsed, delimiter, keyFolding))

\* ------------------------------------------------ tiktoken (@dqbd/tiktoken)
\* A byte is named by its ASCII character, or by its hex value for the bytes
\* of the two non-ASCII characters of the model: "U+E9" (C3 A9), which the
\* vocabulary holds as one token, and "U+1F44D" (F0 9F 91 8D), which it
\* splits into three.

NonAscii == "U+E9"

Emoji == "U+1F44D"

Replacement == "U+FFFD"

\* TextEncoder: the UTF-8 bytes of a character and of a text.
Utf8Char(c) ==
  IF c = NonAscii THEN <<"C3", "A9">>
  ELSE IF c = Emoji THEN <<"F0", "9F", "91", "8D">>
  ELSE <<c>>

RECURSIVE Utf8(_)
Utf8(s) == IF s = <<>> THEN <<>> ELSE Utf8Char(Head(s)) \o Utf8(Tail(s))

\* The vocabulary: merged byte sequences first, then every single byte.
Merges == << <<"\"", ":">>, <<" ", " ">>, <<"1", "2">>, <<"C3", "A9">>, <<"F0", "9F">> >>

SingleBytes ==
  <<"{", "}", "[", "]", "\"", ":", ",", " ", "\n", "-", ".", "|", "\t", "\\",
    "0", "1", "2", "3", "4", "5", "6", "7", "8", "9",
    "a", "b", "c", "d", "e", "f", "h", "l", "n", "o", "r", "s", "t", "u", "w", "x",
    "C3", "A9", "F0", "9F", "91", "8D">>

Vocab == Merges \o [i \in 1..Len(SingleBytes) |-> <<SingleBytes[i]>>]

\* encoding.decode_single_token_bytes(id)
decode_single_token_bytes(id) == Vocab[id]

\* encoding.encode on bytes: the longest vocabulary entry at each position.
RECURSIVE EncodeBytes(_)
EncodeBytes(bs) ==
  IF bs = <<>> THEN <<>>
  ELSE LET fits == {k \in 1..Len(Vocab) : Matches(bs, 1, Vocab[k])}
           id == CHOOSE k \in fits : \A j \in fits : Len(Vocab[j]) <= Len(Vocab[k])
       IN <<id>> \o EncodeBytes(SubSeq(bs, Len(Vocab[id]) + 1, Len(bs)))

encode(text) == EncodeBytes(Utf8(text))

\* new TextDecoder().decode(bytes): a complete sequence is its character, a
\* truncated sequence is one U+FFFD, and so is a stray continuation byte.
RECURSIVE TextDecode(_)
TextDecode(bs) ==
  IF bs = <<>> THEN <<>>
  ELSE IF Matches(bs, 1, <<"C3", "A9">>)
  THEN <<NonAscii>> \o TextDecode(SubSeq(bs, 3, Len(bs)))
  ELSE IF Matches(bs, 1, <<"F0", "9F", "91", "8D">>)
  THEN <<Emoji>> \o TextDecode(SubSeq(bs, 5, Len(bs)))
  ELSE IF Matches(bs, 1, <<"F0", "9F", "91">>)
  THEN <<Replacement>> \o TextDecode(SubSeq(bs, 4, Len(bs)))
  ELSE IF Matches(bs, 1, <<"F0", "9F">>)
  THEN <<Replacement>> \o TextDecode(SubSeq(bs, 3, Len(bs)))
  ELSE IF Head(bs) \in {"C3", "A9", "F0", "9F", "91", "8D"}
  THEN <<Replacement>> \o TextDecode(Tail(bs))
  ELSE <<Head(bs)>> \o TextDecode(Tail(bs))

\* The Token[] the route builds for one non-empty text.
TokensOf(text) ==
  LET ids == encode(text)
  IN [i \in 1..Len(ids) |->
        [id |-> ids[i], text |-> TextDecode(decode_single_token_bytes(ids[i]))]]

\* ------------------------------------- counts and approximate tokens (page.tsx)

\* value.length: the number of UTF-16 code units (two for U+1F44D).
RECURSIVE JsLength(_)
JsLength(s) ==
  IF s = <<>> THEN 0
  ELSE (IF Head(s) = Emoji THEN 2 ELSE 1) + JsLength(Tail(s))

\* typeof window: "undefined" when the module runs on the server.
Windows == {"undefined", "object"}

calculateCounts(value, typeofWindow) ==
  IF value = <<>> THEN [chars |-> 0, bytes |-> 0]
  ELSE [chars |-> JsLength(value),
        bytes |-> IF typeofWindow = "undefined" THEN JsLength(value)
                  ELSE Len(Utf8(value))]

\* Math.max(1, Math.ceil(bytes / 4))
CeilQuarter(bytes) == IF (bytes + 3) \div 4 > 1 THEN (bytes + 3) \div 4 ELSE 1

approximateTokensFromText(txt, typeofWindow) ==
  IF txt = <<>> THEN 0
  ELSE CeilQuarter(IF typeofWindow = "undefined" THEN JsLength(txt) ELSE Len(Utf8(txt)))

\* ----------------------------------------------------- simpleTokenize (page.tsx)

LowerLetters ==
  <<"a", "b", "c", "d", "e", "f", "g", "h", "i", "j", "k", "l", "m",
    "n", "o", "p", "q", "r", "s", "t", "u", "v", "w", "x", "y", "z">>

UpperLetters ==
  <<"A", "B", "C", "D", "E", "F", "G", "H", "I", "J", "K", "L", "M",
    "N", "O", "P", "Q", "R", "S", "T", "U", "V", "W", "X", "Y", "Z">>

IsLetter(c) == \E i \in 1..26 : LowerLetters[i] = c \/ UpperLetters[i] = c

\* \s (of the characters the model's texts use).
IsSpace(c) == c \in {" ", "\n", "\t", "\r"}

\* The three alternatives of the regex: \s+, [A-Za-z0-9_\-"'@]+ and the rest.
CharClass(c) ==
  IF IsSpace(c) THEN "space"
  ELSE IF IsLetter(c) \/ IsDigit(c) \/ c \in {"_", "-", "\"", "'", "@"} THEN "word"
  ELSE "other"

\* The last character of the greedy match that starts at i.
RECURSIVE RunEnd(_, _)
RunEnd(s, i) ==
  IF i < Len(s) /\ CharClass(s[i + 1]) = CharClass(s[i]) THEN RunEnd(s, i + 1) ELSE i

\* id: null
NullId == 0

\* if (!idMap.has(tokenText)) idMap.set(tokenText, nextId++): the map as the
\* sequence of its keys, the id of a key being its position.
Remember(idMap, tokenText) ==
  IF \E n \in 1..Len(idMap) : idMap[n] = tokenText THEN idMap
  ELSE Append(idMap, tokenText)

\* An id taken from the counter instead of the map.
IdOfCounter(idMap, tokenText) == Len(idMap)

\* idMap.get(tokenText)
IdOf(idMap, tokenText) == CHOOSE n \in 1..Len(idMap) : idMap[n] = tokenText

Token(id, tokenText, index) ==
  [id |-> id, text |-> tokenText, start |-> index, end |-> index + JsLength(tokenText)]

RECURSIVE Exec(_, _, _, _, _)

\* One turn of the while loop for the match m[0] = tokenText at m.index.
Matched(s, next, tokenText, index, idMap, tokens) ==
  IF CharClass(Head(tokenText)) = "space"
  THEN Exec(s, next, index + JsLength(tokenText), idMap,
            Append(tokens, Token(NullId, tokenText, index)))
  ELSE Exec(s, next, index + JsLength(tokenText), Remember(idMap, tokenText),
            Append(tokens, Token(IdOf(Remember(idMap, tokenText), tokenText), tokenText, index)))

\* while ((m = regex.exec(text))): i is the character the next match starts at,
\* index its offset in code units.
Exec(s, i, index, idMap, tokens) ==
  IF i > Len(s) THEN tokens
  ELSE Matched(s, RunEnd(s, i) + 1, SubSeq(s, i, RunEnd(s, i)), index, idMap, tokens)

\* A tokenizer that splits on whitespace and drops it.
simpleTokenizeSplit(txt) ==
  SelectSeq(Exec(txt, 1, 0, <<>>, <<>>), LAMBDA t : t.id # NullId)

simpleTokenize(txt) == IF txt = <<>> THEN <<>> ELSE Exec(txt, 1, 0, <<>>, <<>>)

\* -------------------------- token-aware converters (src/unnamed/part_003)

\* word.toLowerCase()
ToLowerCase(word) ==
  [i \in 1..Len(word) |->
     IF \E n \in 1..26 : UpperLetters[n] = word[i]
     THEN LowerLetters[CHOOSE n \in 1..26 : UpperLetters[n] = word[i]]
     ELSE word[i]]

\* isReservedYamlWord
isReservedYamlWord(word) ==
  ToLowerCase(word) \in { <<"t", "r", "u", "e">>, <<"f", "a", "l", "s", "e">>,
                          <<"n", "u", "l", "l">>, <<"y", "e", "s">>, <<"n", "o">>,
                          <<"o", "n">>, <<"o", "f", "f">>, <<"~">> }

\* jsonToYamlLite: tokenAware && /^[a-zA-Z0-9_-]+$/.test(value) && !isReservedYamlWord(value)
YamlOmitsQuotes(str, tokenAware) ==
  /\ tokenAware
  /\ str # <<>>
  /\ \A i \in 1..Len(str) : IsLetter(str[i]) \/ IsDigit(str[i]) \/ str[i] \in {"_", "-"}
  /\ ~isReservedYamlWord(str)

\* jsonToYamlLite(value, indent, tokenAware)
RECURSIVE jsonToYamlLiteAware(_, _, _)
jsonToYamlLiteAware(v, indent, tokenAware) ==
  IF IsScalar(v) THEN
    IF v.t = "str"
    THEN (IF YamlOmitsQuotes(v.s, tokenAware) THEN v.s ELSE JSONString(v.s))
    ELSE PrimText(v)
  ELSE IF v.t = "arr" THEN
    IF v.a = <<>> THEN <<"[", "]">>
    ELSE Join([i \in 1..Len(v.a) |->
                LET nested == jsonToYamlLiteAware(v.a[i], indent + 1, tokenAware)
                IN IF ~IsScalar(v.a[i]) /\ HasNl(nested)
                   THEN Spaces(indent) \o <<"-", " ">> \o SplitNl(nested)[1] \o <<"\n">>
                        \o Join([j \in 1..(Len(SplitNl(nested)) - 1) |->
                                  <<" ", " ">> \o SplitNl(nested)[j + 1]],
                                <<"\n">>)
                   ELSE Spaces(indent) \o <<"-", " ">> \o nested],
              <<"\n">>)
  ELSE
    IF v.o = <<>> THEN <<"{", "}">>
    ELSE Join([i \in 1..Len(v.o) |->
                LET nested == jsonToYamlLiteAware(v.o[i].v, indent + 1, tokenAware)
                IN IF ~IsScalar(v.o[i].v)
                   THEN Spaces(indent) \o v.o[i].k \o <<":", "\n">> \o Spaces(indent + 1)
                        \o ReplaceNl(nested, Spaces(indent + 1))
                   ELSE Spaces(indent) \o v.o[i].k \o <<":", " ">> \o nested],
              <<"\n">>)

\* jsonStringify's replacer: typeof val === "string" && /^[a-zA-Z0-9_-]+$/.test(val)
\* && !isReservedYamlWord(val)
ReplacerMarks(v) ==
  /\ v.t = "str"
  /\ v.s # <<>>
  /\ \A i \in 1..Len(v.s) : IsLetter(v.s[i]) \/ IsDigit(v.s[i]) \/ v.s[i] \in {"_", "-"}
  /\ ~isReservedYamlWord(v.s)

UnquotedPrefix == <<"_", "_", "U", "N", "Q", "U", "O", "T", "E", "D", "_", "_">>

\* `__UNQUOTED__${val}__`
Marker(str) == UnquotedPrefix \o str \o <<"_", "_">>

\* What JSON.stringify serializes after calling the replacer on the value, on
\* every array element and on every property value.
RECURSIVE Replaced(_)
Replaced(v) ==
  IF ReplacerMarks(v) THEN [t |-> "str", s |-> Marker(v.s)]
  ELSE IF v.t = "arr" THEN [t |-> "arr", a |-> [i \in 1..Len(v.a) |-> Replaced(v.a[i])]]
  ELSE IF v.t = "obj"
  THEN [t |-> "obj",
        o |-> [i \in 1..Len(v.o) |-> [k |-> v.o[i].k, v |-> Replaced(v.o[i].v)]]]
  ELSE v

\* Where a match of /\"__UNQUOTED__(.+?)__\"/ that starts at i can end: the
\* positions of a closing __" after a group of one or more characters that
\* are no line terminators.
GroupEnds(s, i) ==
  {e \in (i + 14)..(Len(s) - 2) :
     /\ Matches(s, e, <<"_", "_", "\"">>)
     /\ \A q \in (i + 13)..(e - 1) : s[q] # "\n"}

RECURSIVE RemoveMarkerQuotes(_, _)

\* The match from i with its group ending before e is replaced by the group.
ReplaceMatch(s, i, e) == SubSeq(s, i + 13, e - 1) \o RemoveMarkerQuotes(s, e + 3)

\* .replace(/\"__UNQUOTED__(.+?)__\"/g, '$1') from position i on: the lazy
\* group takes the nearest end.
RemoveMarkerQuotes(s, i) ==
  IF i > Len(s) THEN <<>>
  ELSE IF Matches(s, i, <<"\"">> \o UnquotedPrefix) /\ GroupEnds(s, i) # {}
  THEN ReplaceMatch(s, i, CHOOSE e \in GroupEnds(s, i) : \A f \in GroupEnds(s, i) : e <= f)
  ELSE <<s[i]>> \o RemoveMarkerQuotes(s, i + 1)

\* JSON.stringify(value, replacer, indent): indent is 2 or absent (0).
StringifyIndent(v, indent) == IF indent = 2 THEN StringifyPretty(v, 0) ELSE StringifyMin(v)

\* jsonStringify(value, tokenAware, indent)
jsonStringify(v, tokenAware, indent) ==
  IF ~tokenAware THEN StringifyIndent(v, indent)
  ELSE RemoveMarkerQuotes(StringifyIndent(Replaced(v), indent), 1)

\* ------------------------------------------------------ POST /api/tokenize

\* route.ts, the loop over Object.entries(texts): a missing or empty text
\* gives [], any other text its tokens.
TokenizeTexts(texts) ==
  [k \in DOMAIN texts |-> IF texts[k] = <<>> THEN <<>> ELSE TokensOf(texts[k])]

\* ------------------------------------------------------------ Home (page.tsx)

VARIABLES
  input,              \* useState: the textarea's text
  showCounts,         \* useState
  toonDelimiter,      \* useState: "," | "\t" | "|"
  toonKeyFolding,     \* useState: "off" | "safe"
  showTokens,         \* useState
  tokenizationModel,  \* useState
  exactTokens,        \* useState: format -> Token[]
  isTokenizing,       \* useState
  tokenizeError,      \* useState
  memo,               \* useMemo's value: error and the four output texts
  requests,           \* the run() calls that have not returned, oldest first
  cleanup,            \* the request the registered effect cleanup cancels, 0 if none
  issued,             \* how many requests the effect has issued
  staleSettled,       \* how the last cancelled run() to return ended, "none"
                      \* before there is one (for observation only)
  \* POST /api/tokenize (route.ts), one request at a time
  srvPc,              \* where the handler stands
  srvBody,            \* the request body as received
  srvEntries,         \* Object.entries(texts) still to tokenize
  resultTokens,       \* route.ts resultTokens, as a sequence of [k, tokens]
  encoding,           \* "none" | "live" | "freed"
  frees,              \* calls of encoding.free() for this request
  response,           \* the response sent, status 0 before there is one
  \* the text functions of page.tsx, applied to one string
  sample,             \* the string they are given
  window,             \* typeof window where they run
  measured,           \* the functions applied so far
  sampleCounts,       \* calculateCounts(sample)
  sampleApprox,       \* approximateTokensFromText(sample)
  sampleTokens,       \* simpleTokenize(sample)
  \* the token-aware converters, applied to one parsed value
  sampleValue,        \* the parsed value they are given
  showTokenAware,     \* useState
  converted,          \* the converters applied so far
  awarePretty,        \* jsonStringify(parsed, showTokenAware, 2)
  awareMinified,      \* jsonStringify(parsed, showTokenAware)
  awareYaml,          \* jsonToYamlLite(parsed, 0, showTokenAware)
  yamlLite            \* jsonToYamlLite(parsed) of page.tsx

vars == <<input, showCounts, toonDelimiter, toonKeyFolding, showTokens,
          tokenizationModel, exactTokens, isTokenizing, tokenizeError, memo, requests,
          cleanup, issued, staleSettled, srvPc, srvBody, srvEntries, resultTokens,
          encoding, frees, response, sample, window, measured, sampleCounts,
          sampleApprox, sampleTokens, sampleValue, showTokenAware, converted,
          awarePretty, awareMinified, awareYaml, yamlLite>>

textVars == <<sample, window, measured, sampleCounts, sampleApprox, sampleTokens>>

convertVars == <<sampleValue, showTokenAware, converted, awarePretty, awareMinified,
                 awareYaml, yamlLite>>

serverVars == <<srvPc, srvBody, srvEntries, resultTokens, encoding, frees, response>>

clientVars == <<input, showCounts, toonDelimiter, toonKeyFolding, showTokens,
                tokenizationModel, exactTokens, isTokenizing, tokenizeError, memo,
                requests, cleanup, issued, staleSettled>>

Kinds == {"pretty", "minified", "yaml", "toon"}

\* '{"hello": "world"}'
InitialInput ==
  <<"{", "\"", "h", "e", "l", "l", "o", "\"", ":", " ",
    "\"", "w", "o", "r", "l", "d", "\"", "}">>

\* The texts the user types or pastes in the model.
Inputs ==
  { InitialInput,
    <<" ">>,
    <<"{">>,
    <<"[", "1", ",", "2", "]">> }

Delimiters == {",", "|"}

KeyFoldings == {"off", "safe"}

Models == {"cl100k_base", "gpt2"}

\* setExactTokens({})
NoTokens == [k \in {} |-> <<>>]

BlankOutputs ==
  [error |-> "", prettyJson |-> <<>>, minifiedJson |-> <<>>, yaml |-> <<>>, toon |-> <<>>]

\* The useMemo callback's try block after a successful JSON.parse; an
\* exception from a converter lands in the same catch as a parse error.
Converted(parsed, toon) ==
  IF toon.threw THEN [BlankOutputs EXCEPT !.error = toon.msg]
  ELSE [error |-> "",
        prettyJson |-> StringifyPretty(parsed, 0),
        minifiedJson |-> StringifyMin(parsed),
        yaml |-> jsonToYamlLite(parsed, 0),
        toon |-> toon.text]

\* The catch with a fixed message in place of the exception's own.
OutputsParsedFixedMessage(r, delimiter, keyFolding, toonThrows) ==
  IF ~r.ok THEN [BlankOutputs EXCEPT !.error = "Invalid JSON"]
  ELSE Converted(r.val, toToonEncoding(r.val, delimiter, keyFolding, toonThrows))

OutputsParsed(r, delimiter, keyFolding, toonThrows) ==
  IF ~r.ok THEN [BlankOutputs EXCEPT !.error = r.msg]
  ELSE Converted(r.val, toToonEncoding(r.val, delimiter, keyFolding, toonThrows))

\* The useMemo callback.
Outputs(in, delimiter, keyFolding, toonThrows) ==
  IF IsBlank(in) THEN BlankOutputs
  ELSE OutputsParsed(JSONParse(in), delimiter, keyFolding, toonThrows)

\* The effect's `texts` object.
TextsOf(m) == [k \in Kinds |->
                 IF k = "pretty" THEN m.prettyJson
                 ELSE IF k = "minified" THEN m.minifiedJson
                 ELSE IF k = "yaml" THEN m.yaml
                 ELSE m.toon]

\* JSON.parse(input) for the model's inputs.
ParseTable == [in \in Inputs |-> JSONParse(in)]

\* Outputs and the route's answer, computed once for the model's inputs.
OutputTable ==
  [a \in Inputs \X Delimiters \X KeyFoldings \X BOOLEAN |-> Outputs(a[1], a[2], a[3], a[4])]

Memo(in, delimiter, keyFolding, toonThrows) == OutputTable[<<in, delimiter, keyFolding, toonThrows>>]

ResponseTable ==
  [t \in {TextsOf(OutputTable[a]) : a \in DOMAIN OutputTable} |-> TokenizeTexts(t)]

Response(texts) == ResponseTable[texts]

\* The guards with their condition dropped.
ModelSupportedAny(model) == TRUE

TokensWantedAlways(tokens, counts) == TRUE

\* A cleanup that neither sets cancelled nor aborts.
RunCleanupNever(reqs, c) == reqs

\* The effect's three guards.
ModelSupported(model) == model = "cl100k_base"

TokensWanted(tokens, counts) == tokens \/ counts

AnyText(texts) == \E k \in DOMAIN texts : texts[k] # <<>>

\* The effect's cleanup: cancelled = true; controller.abort().
RunCleanup(reqs, c) ==
  IF c = 0 THEN reqs
  ELSE [reqs EXCEPT ![c].cancelled = TRUE, ![c].aborted = TRUE]

\* let cancelled = false; new AbortController(); run() up to its first await.
NewRequest(model, texts) ==
  [cancelled |-> FALSE, aborted |-> FALSE, pc |-> "fetch", model |-> model,
   texts |-> texts]

\* One render and commit with the given state: useMemo recomputes when one
\* of its dependencies [input, encodingFormat, encodingStrength] changed, and
\* the effect re-runs (cleanup first) when one of its dependencies changed.
\* encodingFormat and encodingStrength are read nowhere else, so the model
\* keeps only whether one of them changed (fmtChanged).
Render(in, fmtChanged, counts, delimiter, keyFolding, tokens, model, toonThrows) ==
  LET m2 == IF in # input \/ fmtChanged
            THEN Memo(in, delimiter, keyFolding, toonThrows)
            ELSE memo
      depsChanged == \/ TextsOf(m2) # TextsOf(memo)
                     \/ model # tokenizationModel
                     \/ tokens # showTokens
                     \/ counts # showCounts
      texts == TextsOf(m2)
  IN /\ input' = in
     /\ showCounts' = counts
     /\ toonDelimiter' = delimiter
     /\ toonKeyFolding' = keyFolding
     /\ showTokens' = tokens
     /\ tokenizationModel' = model
     /\ memo' = m2
     /\ UNCHANGED <<staleSettled, serverVars, textVars, convertVars>>
     /\ IF ~depsChanged
        THEN UNCHANGED <<exactTokens, isTokenizing, tokenizeError, requests, cleanup, issued>>
        ELSE IF ~ModelSupported(model) \/ ~TokensWanted(tokens, counts) \/ ~AnyText(texts)
        THEN /\ exactTokens' = NoTokens
             /\ isTokenizing' = FALSE
             /\ tokenizeError' = ""
             /\ requests' = RunCleanup(requests, cleanup)
             /\ cleanup' = 0
             /\ UNCHANGED issued
        ELSE /\ issued < MaxRequests
             /\ issued' = issued + 1
             /\ requests' = Append(RunCleanup(requests, cleanup), NewRequest(model, texts))
             /\ cleanup' = Len(requests) + 1
             /\ isTokenizing' = TRUE
             /\ tokenizeError' = ""
             /\ UNCHANGED exactTokens

\* A body req.json() cannot parse.
Unparsable == [t |-> "unparsable"]

\* A property a JSON object does not have.
Undefined == [t |-> "undefined"]

JNull == [t |-> "null"]

JStr(s) == [t |-> "str", s |-> s]

JNum(n) == [t |-> "num", n |-> n]

JObj(es) == [t |-> "obj", o |-> es]

JArr(vs) == [t |-> "arr", a |-> vs]

\* The key that names an object's prototype.
ProtoKey == <<"_", "_", "p", "r", "o", "t", "o", "_", "_">>

\* The bodies sent to the route in the model: every shape of the body itself,
\* of model and of texts.
ModelFields ==
  { Undefined, JNull, JNum(5), JStr(<<>>), JStr(<<"g", "p", "t", "2">>),
    JStr(<<"c", "l", "1", "0", "0", "k", "_", "b", "a", "s", "e">>) }

TextsFields ==
  { Undefined, JNull, JStr(<<"x">>), JNum(1),
    JArr(<<JStr(<<"a">>)>>),
    JObj(<<>>),
    JObj(<<[k |-> <<"x">>, v |-> JStr(<<"a", "b">>)], [k |-> <<"y">>, v |-> JStr(<<>>)]>>),
    JObj(<<[k |-> <<"x">>, v |-> JNull], [k |-> <<"y">>, v |-> JStr(<<"a">>)]>>),
    JObj(<<[k |-> <<"x">>, v |-> JStr(<<"a">>)], [k |-> <<"y">>, v |-> JNum(7)]>>),
    JObj(<<[k |-> <<"x">>, v |-> JStr(<<NonAscii, "1", "2">>)]>>),
    JObj(<<[k |-> <<"x">>, v |-> JStr(<<"a", Emoji>>)]>>),
    JObj(<<[k |-> ProtoKey, v |-> JStr(<<"a">>)], [k |-> <<"y">>, v |-> JStr(<<"b">>)]>>) }

Field(k, v) == IF v = Undefined THEN <<>> ELSE <<[k |-> k, v |-> v]>>

Bodies ==
  { Unparsable, JNull, JNum(5), JStr(<<"x">>), [t |-> "bool", b |-> TRUE], JArr(<<>>) }
  \cup { JObj(Field(<<"m", "o", "d", "e", "l">>, m) \o Field(<<"t", "e", "x", "t", "s">>, x)) :
           m \in ModelFields, x \in TextsFields }

\* body.key for a body that is not null: a primitive or an array has no such
\* property.
GetProp(v, key) ==
  IF v.t = "obj" /\ \E i \in 1..Len(v.o) : v.o[i].k = key
  THEN v.o[CHOOSE i \in 1..Len(v.o) : v.o[i].k = key].v
  ELSE Undefined

\* !value
Falsy(v) ==
  \/ v.t \in {"undefined", "null"}
  \/ v.t = "str" /\ v.s = <<>>
  \/ v.t = "num" /\ v.n = 0
  \/ v.t = "bool" /\ ~v.b

\* typeof value === "object"
TypeofObject(v) == v.t \in {"null", "obj", "arr"}

\* Object.entries(texts): an array's entries are keyed by index.
EntriesOf(v) ==
  IF v.t = "obj" THEN v.o
  ELSE IF v.t = "arr" THEN [i \in 1..Len(v.a) |-> [k |-> NumText(i - 1), v |-> v.a[i]]]
  ELSE <<>>

NoResponse == [status |-> 0, error |-> "", hasTokens |-> FALSE, tokens |-> <<>>]

\* NextResponse.json({ error }, { status })
ErrorResponse(status, msg) ==
  [status |-> status, error |-> msg, hasTokens |-> FALSE, tokens |-> <<>>]

\* What the framework answers when the handler throws: a 500 without the
\* route's JSON error object.
UnhandledResponse == [status |-> 500, error |-> "", hasTokens |-> FALSE, tokens |-> <<>>]

ServerInit ==
  /\ srvPc = "idle"
  /\ srvBody = Unparsable
  /\ srvEntries = <<>>
  /\ resultTokens = <<>>
  /\ encoding = "none"
  /\ frees = 0
  /\ response = NoResponse

\* A route that accepts every model name.
SupportedModelAny(model) == model.t = "str"

\* The model identifier the route accepts.
SupportedModel(model) == model.t = "str" /\ model.s = <<"c", "l", "1", "0", "0", "k", "_", "b", "a", "s", "e">>

\* route.ts 30..43: the destructuring and the three checks; the answer they
\* give, or "pass".
Validate(body) ==
  IF body.t = "null" THEN [pass |-> FALSE, response |-> UnhandledResponse]
  ELSE LET model == GetProp(body, <<"m", "o", "d", "e", "l">>)
           texts == GetProp(body, <<"t", "e", "x", "t", "s">>)
       IN IF Falsy(model) \/ model.t # "str"
          THEN [pass |-> FALSE, response |-> ErrorResponse(400, "Missing or invalid model")]
          ELSE IF Falsy(texts) \/ ~TypeofObject(texts)
          THEN [pass |-> FALSE, response |-> ErrorResponse(400, "Missing or invalid texts")]
          ELSE IF ~SupportedModel(model)
          THEN [pass |-> FALSE, response |-> ErrorResponse(400, "Unsupported model")]
          ELSE [pass |-> TRUE, response |-> NoResponse]

\* resultTokens[key] = tokens on the plain object resultTokens: an own
\* property, except for the key __proto__, whose assignment sets the
\* object's prototype and adds no own property.
SetProperty(obj, key, tokens) ==
  IF key = ProtoKey THEN obj
  ELSE IF \E i \in 1..Len(obj) : obj[i].k = key
  THEN [i \in 1..Len(obj) |-> IF obj[i].k = key THEN [k |-> key, tokens |-> tokens] ELSE obj[i]]
  ELSE Append(obj, [k |-> key, tokens |-> tokens])

\* The catch of the loop answering with the partial result.
CatchResponseWithPartial(msg, partial) ==
  [status |-> 500, error |-> msg, hasTokens |-> TRUE, tokens |-> partial]

\* catch (err) { ...; return NextResponse.json({ error }, { status: 500 }) }
CatchResponse(msg, partial) == ErrorResponse(500, msg)

\* A request arrives.
Receive(body) ==
  /\ srvPc \in {"idle", "done"}
  /\ srvPc' = "json"
  /\ srvBody' = body
  /\ srvEntries' = <<>>
  /\ resultTokens' = <<>>
  /\ encoding' = "none"
  /\ frees' = 0
  /\ response' = NoResponse
  /\ UNCHANGED <<clientVars, textVars, convertVars>>

\* body = await req.json(), in its try/catch.
ReadBody ==
  /\ srvPc = "json"
  /\ IF srvBody = Unparsable
     THEN srvPc' = "done" /\ response' = ErrorResponse(400, "Invalid JSON body")
     ELSE srvPc' = "validate" /\ UNCHANGED response
  /\ UNCHANGED <<srvBody, srvEntries, resultTokens, encoding, frees, clientVars, textVars,
                 convertVars>>

\* const { model, texts } = body and the checks; then get_encoding.
ValidateBody ==
  /\ srvPc = "validate"
  /\ LET v == Validate(srvBody)
     IN IF v.pass
        THEN /\ srvPc' = "loop"
             /\ encoding' = "live"
             /\ srvEntries' = EntriesOf(GetProp(srvBody, <<"t", "e", "x", "t", "s">>))
             /\ UNCHANGED response
        ELSE /\ srvPc' = "done"
             /\ response' = v.response
             /\ UNCHANGED <<encoding, srvEntries>>
  /\ UNCHANGED <<srvBody, resultTokens, frees, clientVars, textVars,
                 convertVars>>

\* One turn of the for loop; encode throws on a value that is no string, and
\* when the tokenizer fails (fails).  The catch frees the encoding and
\* answers 500.
TokenizeEntry(fails) ==
  /\ srvPc = "loop"
  /\ srvEntries # <<>>
  /\ LET e == Head(srvEntries)
     IN IF Falsy(e.v)
        THEN /\ resultTokens' = SetProperty(resultTokens, e.k, <<>>)
             /\ srvEntries' = Tail(srvEntries)
             /\ UNCHANGED <<srvPc, encoding, frees, response>>
        ELSE IF e.v.t # "str" \/ fails
        THEN /\ encoding' = "freed"
             /\ frees' = frees + 1
             /\ response' = CatchResponse("Tokenization failed", resultTokens)
             /\ srvPc' = "done"
             /\ UNCHANGED <<resultTokens, srvEntries>>
        ELSE /\ resultTokens' = SetProperty(resultTokens, e.k, TokensOf(e.v.s))
             /\ srvEntries' = Tail(srvEntries)
             /\ UNCHANGED <<srvPc, encoding, frees, response>>
  /\ UNCHANGED <<srvBody, clientVars, textVars,
                 convertVars>>

\* The normal exit without its encoding.free().
RespondWithoutFree ==
  /\ srvPc = "loop"
  /\ srvEntries = <<>>
  /\ response' = [status |-> 200, error |-> "", hasTokens |-> TRUE, tokens |-> resultTokens]
  /\ srvPc' = "done"
  /\ UNCHANGED <<srvBody, srvEntries, resultTokens, encoding, frees, clientVars, textVars,
                 convertVars>>

\* After the loop: encoding.free() and the 200 response.
Respond ==
  /\ srvPc = "loop"
  /\ srvEntries = <<>>
  /\ encoding' = "freed"
  /\ frees' = frees + 1
  /\ response' = [status |-> 200, error |-> "", hasTokens |-> TRUE, tokens |-> resultTokens]
  /\ srvPc' = "done"
  /\ UNCHANGED <<srvBody, srvEntries, resultTokens, clientVars, textVars,
                 convertVars>>

ServerNext ==
  \/ \E body \in Bodies : Receive(body)
  \/ ReadBody
  \/ ValidateBody
  \/ \E fails \in BOOLEAN : TokenizeEntry(fails)
  \/ Respond

\* Home after the first render and its effect.
HomeInit ==
  /\ input = InitialInput
  /\ showCounts = TRUE
  /\ toonDelimiter = ","
  /\ toonKeyFolding = "off"
  /\ showTokens = FALSE
  /\ tokenizationModel = "cl100k_base"
  /\ exactTokens = NoTokens
  /\ isTokenizing = TRUE
  /\ tokenizeError = ""
  /\ memo = Memo(InitialInput, ",", "off", FALSE)
  /\ requests = <<NewRequest("cl100k_base", TextsOf(Memo(InitialInput, ",", "off", FALSE)))>>
  /\ cleanup = 1
  /\ issued = 1
  /\ staleSettled = "none"

\* No text function has been applied.
NotMeasured ==
  /\ measured = {}
  /\ sampleCounts = [chars |-> 0, bytes |-> 0]
  /\ sampleApprox = 0
  /\ sampleTokens = <<>>

TextIdle ==
  /\ sample = <<>>
  /\ window = "object"
  /\ NotMeasured

\* No converter has been applied.
NotConverted ==
  /\ converted = {}
  /\ awarePretty = <<>>
  /\ awareMinified = <<>>
  /\ awareYaml = <<>>
  /\ yamlLite = <<>>

ConvertIdle ==
  /\ sampleValue = JNull
  /\ showTokenAware = FALSE
  /\ NotConverted

\* The state after the first render and its effect.
Init ==
  /\ HomeInit
  /\ ServerInit
  /\ TextIdle
  /\ ConvertIdle

\* ---- the user's actions

SetInput(text, toonThrows) ==
  /\ text # input
  /\ Render(text, FALSE, showCounts, toonDelimiter, toonKeyFolding, showTokens,
            tokenizationModel, toonThrows)

\* setEncodingFormat / setEncodingStrength with another value.
SetEncodingFormat(toonThrows) ==
  /\ Render(input, TRUE, showCounts, toonDelimiter, toonKeyFolding, showTokens,
            tokenizationModel, toonThrows)

SetShowCounts(b) ==
  /\ b # showCounts
  /\ Render(input, FALSE, b, toonDelimiter, toonKeyFolding, showTokens,
            tokenizationModel, FALSE)

SetToonDelimiter(d) ==
  /\ d # toonDelimiter
  /\ Render(input, FALSE, showCounts, d, toonKeyFolding, showTokens,
            tokenizationModel, FALSE)

SetToonKeyFolding(f) ==
  /\ f # toonKeyFolding
  /\ Render(input, FALSE, showCounts, toonDelimiter, f, showTokens,
            tokenizationModel, FALSE)

SetShowTokens(b) ==
  /\ b # showTokens
  /\ Render(input, FALSE, showCounts, toonDelimiter, toonKeyFolding, b,
            tokenizationModel, FALSE)

SetTokenizationModel(m) ==
  /\ m # tokenizationModel
  /\ Render(input, FALSE, showCounts, toonDelimiter, toonKeyFolding, showTokens,
            m, FALSE)

\* ---- run(): the continuations after each await

\* What a rejected fetch() or res.json() throws.
AbortError == [isError |-> TRUE, name |-> "AbortError", message |-> "The user aborted a request."]

NetworkError == [isError |-> TRUE, name |-> "TypeError", message |-> "Failed to fetch"]

BodySyntaxError == [isError |-> TRUE, name |-> "SyntaxError", message |-> TokenMsg]

NonError == [isError |-> FALSE, name |-> "", message |-> ""]

\* The three state cells run() writes.
Cells == [exactTokens |-> exactTokens, tokenizeError |-> tokenizeError,
          isTokenizing |-> isTokenizing]

\* No finally block.
FinallyNever(cancelled, cur) == cur

\* A finally without its cancelled check.
FinallyUnguarded(cancelled, cur) == [cur EXCEPT !.isTokenizing = FALSE]

\* finally { if (!cancelled) setIsTokenizing(false) }
Finally(cancelled, cur) ==
  IF ~cancelled THEN [cur EXCEPT !.isTokenizing = FALSE] ELSE cur

\* The non-2xx branch without its setTokenizeError.
OnNotOkSilent(cancelled, payloadError, cur) ==
  Finally(cancelled, IF ~cancelled THEN [cur EXCEPT !.exactTokens = NoTokens] ELSE cur)

\* The success branch without its cancelled check.
OnOkUnguarded(cancelled, hasTokens, tokens, cur) ==
  Finally(cancelled, [cur EXCEPT !.exactTokens = IF hasTokens THEN tokens ELSE NoTokens])

\* The catch without its early return.
OnCatchUnguarded(cancelled, err, cur) ==
  Finally(cancelled,
          [cur EXCEPT !.exactTokens = NoTokens,
                      !.tokenizeError = IF err.isError THEN err.message
                                        ELSE "Failed to tokenize"])

\* if (!res.ok) { payload = await res.json().catch(() => ({})); ... return }
OnNotOk(cancelled, payloadError, cur) ==
  Finally(cancelled,
          IF ~cancelled
          THEN [cur EXCEPT !.exactTokens = NoTokens,
                           !.tokenizeError = IF payloadError # "" THEN payloadError
                                             ELSE "Failed to tokenize"]
          ELSE cur)

\* payload = await res.json(); if (!cancelled) setExactTokens(payload.tokens ?? {})
OnOk(cancelled, hasTokens, tokens, cur) ==
  Finally(cancelled,
          IF ~cancelled
          THEN [cur EXCEPT !.exactTokens = IF hasTokens THEN tokens ELSE NoTokens]
          ELSE cur)

\* The catch without its setExactTokens({}).
OnCatchKeepsTokens(cancelled, err, cur) ==
  Finally(cancelled,
          IF cancelled \/ err.name = "AbortError" THEN cur
          ELSE [cur EXCEPT !.tokenizeError = IF err.isError THEN err.message
                                             ELSE "Failed to tokenize"])

\* catch (err) { if (cancelled || AbortError) return; ... }
OnCatch(cancelled, err, cur) ==
  Finally(cancelled,
          IF cancelled \/ err.name = "AbortError" THEN cur
          ELSE [cur EXCEPT !.exactTokens = NoTokens,
                           !.tokenizeError = IF err.isError THEN err.message
                                             ELSE "Failed to tokenize"])

Write(cells) ==
  /\ exactTokens' = cells.exactTokens
  /\ tokenizeError' = cells.tokenizeError
  /\ isTokenizing' = cells.isTokenizing

Props == <<input, showCounts, toonDelimiter, toonKeyFolding, showTokens,
           tokenizationModel, memo, issued>>

\* A sequence without its r-th element.
Without(seq, r) == SubSeq(seq, 1, r - 1) \o SubSeq(seq, r + 1, Len(seq))

\* run() of request r returns: it leaves the pending requests.
Return(r, outcome) ==
  /\ requests' = Without(requests, r)
  /\ cleanup' = IF cleanup = r THEN 0 ELSE IF cleanup > r THEN cleanup - 1 ELSE cleanup
  /\ staleSettled' = IF requests[r].cancelled THEN outcome ELSE staleSettled

\* fetch() resolves with a response: run() goes on to read its body.
FetchResolves(r, ok) ==
  /\ r \in 1..Len(requests)
  /\ requests[r].pc = "fetch"
  /\ requests' = [requests EXCEPT ![r].pc = IF ok THEN "bodyOk" ELSE "bodyNotOk"]
  /\ UNCHANGED <<Props, cleanup, staleSettled, exactTokens, tokenizeError, isTokenizing,
                 serverVars, textVars, convertVars>>

\* fetch() rejects: a transport failure, or AbortError once aborted.
FetchRejects(r, err) ==
  /\ r \in 1..Len(requests)
  /\ requests[r].pc = "fetch"
  /\ err.name = "AbortError" => requests[r].aborted
  /\ Return(r, "threw")
  /\ Write(OnCatch(requests[r].cancelled, err, Cells))
  /\ UNCHANGED <<Props, serverVars, textVars, convertVars>>

\* The body of a non-2xx response is read (payloadError "" when it has no
\* error field or is not JSON).
NotOkBodySettles(r, payloadError) ==
  /\ r \in 1..Len(requests)
  /\ requests[r].pc = "bodyNotOk"
  /\ Return(r, "notOk")
  /\ Write(OnNotOk(requests[r].cancelled, payloadError, Cells))
  /\ UNCHANGED <<Props, serverVars, textVars, convertVars>>

\* The body of a 2xx response is read: the route's tokens for the request's
\* texts, or a body without a tokens field.
OkBodySettles(r, hasTokens) ==
  /\ r \in 1..Len(requests)
  /\ requests[r].pc = "bodyOk"
  /\ Return(r, "ok")
  /\ Write(OnOk(requests[r].cancelled, hasTokens, Response(requests[r].texts), Cells))
  /\ UNCHANGED <<Props, serverVars, textVars, convertVars>>

\* Reading the body of a 2xx response throws.
OkBodyRejects(r, err) ==
  /\ r \in 1..Len(requests)
  /\ requests[r].pc = "bodyOk"
  /\ err.name = "AbortError" => requests[r].aborted
  /\ Return(r, "threw")
  /\ Write(OnCatch(requests[r].cancelled, err, Cells))
  /\ UNCHANGED <<Props, serverVars, textVars, convertVars>>

\* ---- what the render shows (page.tsx 341..388)

\* prettyTokens, minifiedTokens, yamlTokens, toonTokens: where the tokens
\* shown for a format come from.
TokenSource(kind) ==
  IF showTokens /\ tokenizationModel = "cl100k_base" /\ kind \in DOMAIN exactTokens
  THEN "exact"
  ELSE IF showTokens THEN "approximate"
  ELSE "none"

\* Where the token count shown for a format comes from: the approximate count,
\* replaced by the shown tokens' count, replaced by the exact count.
CountSource(kind) ==
  IF tokenizationModel = "cl100k_base" /\ kind \in DOMAIN exactTokens
     /\ exactTokens[kind] # <<>>
  THEN "exact"
  ELSE IF showTokens /\ TokenSource(kind) = "exact" THEN "exact"
  ELSE "approximate"

Next ==
  \/ \E text \in Inputs, toonThrows \in BOOLEAN : SetInput(text, toonThrows)
  \/ \E toonThrows \in BOOLEAN : SetEncodingFormat(toonThrows)
  \/ \E b \in BOOLEAN : SetShowCounts(b)
  \/ \E d \in Delimiters : SetToonDelimiter(d)
  \/ \E f \in KeyFoldings : SetToonKeyFolding(f)
  \/ \E b \in BOOLEAN : SetShowTokens(b)
  \/ \E m \in Models : SetTokenizationModel(m)
  \/ \E r \in 1..MaxRequests, ok \in BOOLEAN : FetchResolves(r, ok)
  \/ \E r \in 1..MaxRequests, err \in {AbortError, NetworkError} : FetchRejects(r, err)
  \/ \E r \in 1..MaxRequests, e \in {"", "Tokenization failed"} : NotOkBodySettles(r, e)
  \/ \E r \in 1..MaxRequests, hasTokens \in BOOLEAN : OkBodySettles(r, hasTokens)
  \/ \E r \in 1..MaxRequests, err \in {AbortError, BodySyntaxError} : OkBodyRejects(r, err)

Spec == Init /\ [][Next]_vars

\* ---- the text functions applied to one string

\* The strings given to the text functions: a word character, a second one,
\* a space, a punctuation mark, a two-byte and a four-byte character.
TextChars == {"a", "b", " ", ",", NonAscii, Emoji}

Texts == UNION {[1..n -> TextChars] : n \in 0..MaxTextLen}

InitText ==
  /\ HomeInit
  /\ ServerInit
  /\ ConvertIdle
  /\ sample \in Texts
  /\ window \in Windows
  /\ NotMeasured

CalculateCounts ==
  /\ "calculateCounts" \notin measured
  /\ measured' = measured \cup {"calculateCounts"}
  /\ sampleCounts' = calculateCounts(sample, window)
  /\ UNCHANGED <<sample, window, sampleApprox, sampleTokens, clientVars, serverVars,
                 convertVars>>

ApproximateTokensFromText ==
  /\ "approximateTokensFromText" \notin measured
  /\ measured' = measured \cup {"approximateTokensFromText"}
  /\ sampleApprox' = approximateTokensFromText(sample, window)
  /\ UNCHANGED <<sample, window, sampleCounts, sampleTokens, clientVars, serverVars,
                 convertVars>>

SimpleTokenize ==
  /\ "simpleTokenize" \notin measured
  /\ measured' = measured \cup {"simpleTokenize"}
  /\ sampleTokens' = simpleTokenize(sample)
  /\ UNCHANGED <<sample, window, sampleCounts, sampleApprox, clientVars, serverVars,
                 convertVars>>

NextText ==
  \/ CalculateCounts
  \/ ApproximateTokensFromText
  \/ SimpleTokenize

SpecText == InitText /\ [][NextText]_vars

\* ---- the token-aware converters applied to one parsed value

\* The string values given to the converters: bare words, reserved words in
\* both cases, strings with a space, a non-ASCII character or no character,
\* and strings that look like the replacer's marker.
Words ==
  { <<"a">>, <<"a", " ", "b">>, <<"t", "r", "u", "e">>, <<"T", "r", "u", "e">>,
    <<"N", "O">>, <<"~">>, <<>>, <<"x", "_">>, <<"a", "-", "1">>, <<NonAscii>>,
    <<"1">>, Marker(<<"a">>), Marker(<<"a", " ", "b">>) }

PairWords == { <<"a">>, <<"a", " ", "b">>, UnquotedPrefix \o <<"a", " ", "b">>, <<"c", "_", "_">> }

\* Nested values: objects and arrays, empty or not, under a key and as an
\* array's element.
NestedValues ==
  { JObj(<<[k |-> <<"a">>, v |-> JObj(<<[k |-> <<"b">>, v |-> JNum(1)]>>)]>>),
    JObj(<<[k |-> <<"a">>, v |-> JNum(1)],
           [k |-> <<"b">>, v |-> JObj(<<[k |-> <<"c">>, v |-> JStr(<<"d">>)],
                                        [k |-> <<"e">>, v |-> JNull]>>)]>>),
    JObj(<<[k |-> <<"a">>,
            v |-> JObj(<<[k |-> <<"b">>, v |-> JObj(<<[k |-> <<"c">>, v |-> JNum(1)]>>)]>>)]>>),
    JObj(<<[k |-> <<"a">>, v |-> JArr(<<>>)]>>),
    JObj(<<[k |-> <<"a">>, v |-> JObj(<<>>)]>>),
    JObj(<<[k |-> <<"a">>, v |-> JArr(<<JNum(1), JNum(2)>>)]>>),
    JArr(<<JNum(1), JNum(2)>>),
    JArr(<<JObj(<<[k |-> <<"a">>, v |-> JNum(1)], [k |-> <<"b">>, v |-> JNum(2)]>>)>>),
    JArr(<<JObj(<<[k |-> <<"a">>, v |-> JNum(1)]>>), JNum(2)>>),
    JArr(<<JArr(<<JNum(1), JNum(2)>>), JArr(<<>>)>>),
    JArr(<<JArr(<<JArr(<<JNum(1), JNum(2)>>)>>)>>) }

Values ==
  { JNull, JNum(7), [t |-> "bool", b |-> TRUE], JArr(<<>>), JObj(<<>>),
    JObj(<<[k |-> <<"a">>, v |-> JObj(<<[k |-> <<"b">>, v |-> JStr(<<"c">>)]>>)]>>) }
  \cup NestedValues
  \cup { JStr(w) : w \in Words }
  \cup { JArr(<<JStr(w)>>) : w \in Words }
  \cup { JObj(<<[k |-> <<"k">>, v |-> JStr(w)]>>) : w \in Words }
  \cup { JObj(<<[k |-> w, v |-> JNum(1)]>>) : w \in Words }
  \cup { JArr(<<JStr(w[1]), JStr(w[2])>>) : w \in PairWords \X PairWords }

InitConvert ==
  /\ HomeInit
  /\ ServerInit
  /\ TextIdle
  /\ sampleValue \in Values
  /\ showTokenAware \in BOOLEAN
  /\ NotConverted

ConvertPretty ==
  /\ "pretty" \notin converted
  /\ converted' = converted \cup {"pretty"}
  /\ awarePretty' = jsonStringify(sampleValue, showTokenAware, 2)
  /\ UNCHANGED <<sampleValue, showTokenAware, awareMinified, awareYaml, yamlLite, clientVars,
                 serverVars, textVars>>

ConvertMinified ==
  /\ "minified" \notin converted
  /\ converted' = converted \cup {"minified"}
  /\ awareMinified' = jsonStringify(sampleValue, showTokenAware, 0)
  /\ UNCHANGED <<sampleValue, showTokenAware, awarePretty, awareYaml, yamlLite, clientVars,
                 serverVars, textVars>>

ConvertYaml ==
  /\ "yaml" \notin converted
  /\ converted' = converted \cup {"yaml"}
  /\ awareYaml' = jsonToYamlLiteAware(sampleValue, 0, showTokenAware)
  /\ UNCHANGED <<sampleValue, showTokenAware, awarePretty, awareMinified, yamlLite,
                 clientVars, serverVars, textVars>>

\* const yamlText = jsonToYamlLite(parsed) of page.tsx
ConvertYamlLite ==
  /\ "yamlLite" \notin converted
  /\ converted' = converted \cup {"yamlLite"}
  /\ yamlLite' = jsonToYamlLite(sampleValue, 0)
  /\ UNCHANGED <<sampleValue, showTokenAware, awarePretty, awareMinified, awareYaml,
                 clientVars, serverVars, textVars>>

NextConvert ==
  \/ ConvertPretty
  \/ ConvertMinified
  \/ ConvertYaml
  \/ ConvertYamlLite

SpecConvert == InitConvert /\ [][NextConvert]_vars

SpecServer == Init /\ [][ServerNext]_vars

\* ------------------------------------------------------------------ claims

\* C1: once a request has been superseded (its cleanup ran), its completion,
\* whether a success, a non-2xx response or an exception, writes none of
\* exactTokens, tokenizeError and isTokenizing; tokens are only ever applied
\* by the request that is live, and they are the route's answer for the
\* outputs currently shown.
C1_SupersededRequestWritesNothing ==
  [][\A r \in 1..Len(requests) :
       /\ (requests[r].cancelled /\ requests' = Without(requests, r))
            => UNCHANGED <<exactTokens, tokenizeError, isTokenizing>>
       /\ (requests' = Without(requests, r) /\ exactTokens' # exactTokens
           /\ exactTokens' # NoTokens)
            => /\ ~requests[r].cancelled
               /\ r = Len(requests)
               /\ requests[r].texts = TextsOf(memo)
               /\ exactTokens' = Response(requests[r].texts)]_vars

\* A superseded request completed successfully, and afterwards the tokens of
\* the request that replaced it are the ones held.
C1_Witness ==
  /\ staleSettled = "ok"
  /\ requests = <<>>
  /\ exactTokens # NoTokens
  /\ exactTokens = Response(TextsOf(memo))

\* C2: at most one request that is not cancelled is in flight; every request
\* issued before the newest has been cancelled and its controller aborted,
\* cancelling and aborting go together, and the request that is not cancelled
\* is the one whose cleanup is registered.
C2_AtMostOneLiveRequest ==
  /\ Cardinality({r \in 1..Len(requests) : ~requests[r].cancelled}) <= 1
  /\ \A r \in 1..Len(requests) :
       /\ requests[r].cancelled <=> requests[r].aborted
       /\ r < Len(requests) => requests[r].cancelled /\ requests[r].aborted
       /\ ~requests[r].cancelled <=> cleanup = r

\* Two requests are in flight: the older one cancelled and aborted, the
\* newer one live.
C2_Witness ==
  /\ Len(requests) = 2
  /\ requests[1].cancelled /\ requests[1].aborted
  /\ ~requests[2].cancelled /\ ~requests[2].aborted

\* C3: the abort message is never shown, and a request that was cancelled or
\* aborted leaves tokenizeError as it was when it completes.
C3_CancelledRequestSetsNoError ==
  /\ [](tokenizeError # AbortError.message)
  /\ [][\A r \in 1..Len(requests) :
          (requests' = Without(requests, r)
           /\ (requests[r].cancelled \/ requests[r].aborted))
            => tokenizeError' = tokenizeError]_vars

\* A cancelled request ended in its catch block and no error is shown.
C3_Witness ==
  /\ staleSettled = "threw"
  /\ tokenizeError = ""

\* C4: when the live request ends with a non-2xx response (its run() was
\* reading that response's body) or with a rejected fetch, the state
\* afterwards has no exact tokens, a non-empty error message and isTokenizing
\* false; an error message is only ever shown in such a state.
C4_LiveFailureState ==
  /\ [](tokenizeError # "" => exactTokens = NoTokens /\ ~isTokenizing)
  /\ [][\A r \in 1..Len(requests) :
          (/\ ~requests[r].cancelled
           /\ requests[r].pc \in {"bodyNotOk", "fetch"}
           /\ requests' = Without(requests, r))
            => /\ exactTokens' = NoTokens
               /\ tokenizeError' # ""
               /\ ~isTokenizing']_vars

\* Tokens had been shown, then a later request failed: the route's error
\* message is shown, the tokens are gone and nothing is loading.
C4_Witness ==
  /\ issued = 2
  /\ tokenizeError = "Tokenization failed"
  /\ exactTokens = NoTokens
  /\ ~isTokenizing

\* C5: while neither showTokens nor showCounts is set, no live request
\* exists, exactTokens is empty, isTokenizing is false and tokenizeError is
\* empty; hence a live request exists only with showTokens or showCounts set.
C5_NothingWantedNothingFetched ==
  (~showTokens /\ ~showCounts) =>
    /\ \A r \in 1..Len(requests) : requests[r].cancelled
    /\ exactTokens = NoTokens
    /\ ~isTokenizing
    /\ tokenizeError = ""

\* Both switches are off while a request issued earlier is still in flight.
C5_Witness ==
  /\ ~showTokens
  /\ ~showCounts
  /\ requests # <<>>

\* C6: every request names cl100k_base; while another model is selected no
\* live request exists, exactTokens is empty, and the tokens and counts shown
\* come from the approximate tokenizer.
C6_OnlySupportedModelFetches ==
  /\ \A r \in 1..Len(requests) : requests[r].model = "cl100k_base"
  /\ tokenizationModel # "cl100k_base" =>
       /\ \A r \in 1..Len(requests) : requests[r].cancelled
       /\ exactTokens = NoTokens
       /\ ~isTokenizing
       /\ \A k \in Kinds :
            /\ CountSource(k) = "approximate"
            /\ TokenSource(k) = IF showTokens THEN "approximate" ELSE "none"

\* Another model is selected with tokens shown, and a request issued under
\* cl100k_base has since completed successfully.
C6_Witness ==
  /\ tokenizationModel = "gpt2"
  /\ showTokens
  /\ memo.prettyJson # <<>>
  /\ staleSettled = "ok"

\* C7: when the input is not blank and cannot be parsed, the error is the
\* parser's message and all four outputs are empty; whenever the error is
\* non-empty all four outputs are empty.
C7_ParseErrorBlanksOutputs ==
  /\ memo.error # "" => \A k \in Kinds : TextsOf(memo)[k] = <<>>
  /\ (~IsBlank(input) /\ ~ParseTable[input].ok) =>
       /\ memo.error = ParseTable[input].msg
       /\ memo.error # ""
       /\ \A k \in Kinds : TextsOf(memo)[k] = <<>>

\* The input is an unterminated object and the parser's message is shown.
C7_Witness ==
  /\ input = <<"{">>
  /\ memo.error = EndMsg

C9_UnsupportedModelRejected ==
  (/\ srvPc # "idle"
   /\ srvBody.t = "obj"
   /\ GetProp(srvBody, <<"m", "o", "d", "e", "l">>) # Undefined
   /\ GetProp(srvBody, <<"m", "o", "d", "e", "l">>)
        # JStr(<<"c", "l", "1", "0", "0", "k", "_", "b", "a", "s", "e">>)) =>
    /\ encoding = "none"
    /\ frees = 0
    /\ resultTokens = <<>>
    /\ srvPc \in {"json", "validate", "done"}
    /\ srvPc = "done" =>
         /\ response.status = 400
         /\ response.error # ""
         /\ ~response.hasTokens

\* A well-formed request for gpt2 has been answered "Unsupported model".
C9_Witness ==
  /\ srvPc = "done"
  /\ GetProp(srvBody, <<"m", "o", "d", "e", "l">>) = JStr(<<"g", "p", "t", "2">>)
  /\ GetProp(srvBody, <<"t", "e", "x", "t", "s">>).t = "obj"
  /\ response = ErrorResponse(400, "Unsupported model")

\* C10: every request whose body is unparsable, is JSON null, is not an
\* object, lacks a non-empty string model or lacks an object texts is
\* answered with status 400 and an error message; status 500 is answered only
\* after tokenization failed, that is with an encoding allocated and freed.
C10_MalformedBodyGets400 ==
  srvPc = "done" =>
    /\ (\/ srvBody.t # "obj"
        \/ Falsy(GetProp(srvBody, <<"m", "o", "d", "e", "l">>))
        \/ GetProp(srvBody, <<"m", "o", "d", "e", "l">>).t # "str"
        \/ Falsy(GetProp(srvBody, <<"t", "e", "x", "t", "s">>))
        \/ ~TypeofObject(GetProp(srvBody, <<"t", "e", "x", "t", "s">>)))
         => response.status = 400 /\ response.error # ""
    /\ response.status = 500 => encoding = "freed" /\ frees = 1

\* C11: a 200 response of the route has exactly the keys of the request's
\* texts, and a key whose text is empty or missing maps to the empty array.
C11_ResponseKeysAreRequestKeys ==
  (srvPc = "done" /\ response.status = 200) =>
    LET entries == EntriesOf(GetProp(srvBody, <<"t", "e", "x", "t", "s">>))
        tokens == response.tokens
    IN /\ {tokens[j].k : j \in 1..Len(tokens)} = {entries[i].k : i \in 1..Len(entries)}
       /\ \A i \in 1..Len(entries) :
            Falsy(entries[i].v) =>
              \E j \in 1..Len(tokens) :
                tokens[j].k = entries[i].k /\ tokens[j].tokens = <<>>

\* C12: when tokenizing one text of the batch fails (the loop ended with
\* entries left), the answer is status 500 with an error message and without
\* any of the token lists computed for earlier keys.
C12_FailureFailsWholeBatch ==
  (srvPc = "done" /\ srvEntries # <<>>) =>
    /\ response.status = 500
    /\ response.error # ""
    /\ ~response.hasTokens
    /\ response.tokens = <<>>

\* The batch failed after the tokens of an earlier key had been computed.
C12_Witness ==
  /\ srvPc = "done"
  /\ srvEntries # <<>>
  /\ resultTokens # <<>>
  /\ resultTokens[1].tokens # <<>>
  /\ response.status = 500

\* C13: the encoding is freed exactly once on every exit that follows its
\* allocation (the 200 answer and the tokenization failure), it is live
\* whenever the loop uses it, and on the validation-failure exits it was
\* never allocated.
C13_EncodingFreedOnce ==
  /\ frees <= 1
  /\ encoding = "live" <=> srvPc = "loop"
  /\ srvPc = "loop" => frees = 0
  /\ srvPc = "done" =>
       IF response.status = 200 \/ srvEntries # <<>>
       THEN encoding = "freed" /\ frees = 1
       ELSE encoding = "none" /\ frees = 0
  /\ (srvPc = "done" /\ ~Validate(srvBody).pass) => encoding = "none" /\ frees = 0

\* Every text of a batch was tokenized, the answer is 200 and the encoding
\* has been freed once.
C13_Witness ==
  /\ srvPc = "done"
  /\ response.status = 200
  /\ Len(response.tokens) = 2
  /\ encoding = "freed"
  /\ frees = 1

\* C14: in a 200 response, for every key whose text is a non-empty string,
\* the token texts concatenated in order are that text.
C14_TokenTextsRebuildText ==
  (srvPc = "done" /\ response.status = 200) =>
    LET entries == EntriesOf(GetProp(srvBody, <<"t", "e", "x", "t", "s">>))
        tokens == response.tokens
    IN \A i \in 1..Len(entries), j \in 1..Len(tokens) :
         (entries[i].v.t = "str" /\ entries[i].v.s # <<>> /\ tokens[j].k = entries[i].k)
           => Concat([n \in 1..Len(tokens[j].tokens) |-> tokens[j].tokens[n].text])
                = entries[i].v.s

\* C15: simpleTokenize's token texts concatenated in order are the input;
\* the spans are contiguous and non-overlapping from 0 to the input's length,
\* every token's text is the input slice [start, end), and the empty input
\* gives no token.
C15_SimpleTokenizeCoversInput ==
  "simpleTokenize" \in measured =>
    /\ Concat([n \in 1..Len(sampleTokens) |-> sampleTokens[n].text]) = sample
    /\ sample = <<>> => sampleTokens = <<>>
    /\ sample # <<>> =>
         /\ sampleTokens # <<>>
         /\ sampleTokens[1].start = 0
         /\ sampleTokens[Len(sampleTokens)].end = JsLength(sample)
    /\ \A n \in 1..Len(sampleTokens) :
         /\ sampleTokens[n].start < sampleTokens[n].end
         /\ n < Len(sampleTokens) => sampleTokens[n].end = sampleTokens[n + 1].start
         /\ \E i \in 1..Len(sample), j \in 1..Len(sample) :
              /\ JsLength(SubSeq(sample, 1, i - 1)) = sampleTokens[n].start
              /\ JsLength(SubSeq(sample, 1, j)) = sampleTokens[n].end
              /\ SubSeq(sample, i, j) = sampleTokens[n].text

\* A word, a space and a four-byte character have been split into three
\* tokens.
C15_Witness ==
  /\ "simpleTokenize" \in measured
  /\ sample = <<"a", " ", Emoji>>
  /\ Len(sampleTokens) = 3
  /\ sampleTokens[3].end = 4

\* C16: whitespace tokens have id none; a non-whitespace token's id is the
\* rank of the first occurrence of its text among the distinct
\* non-whitespace token texts, so two such tokens share an id iff their texts
\* are equal and the ids used are exactly 1..k for k distinct texts.
C16_SimpleTokenizeIds ==
  "simpleTokenize" \in measured =>
    LET words == {n \in 1..Len(sampleTokens) : ~IsBlank(sampleTokens[n].text)}
        first(n) == CHOOSE m \in words :
                      /\ sampleTokens[m].text = sampleTokens[n].text
                      /\ \A q \in words :
                           sampleTokens[q].text = sampleTokens[n].text => m <= q
    IN /\ \A n \in 1..Len(sampleTokens) : n \notin words <=> sampleTokens[n].id = NullId
       /\ \A n \in words, m \in words :
            sampleTokens[n].id = sampleTokens[m].id
              <=> sampleTokens[n].text = sampleTokens[m].text
       /\ {sampleTokens[n].id : n \in words}
            = 1..Cardinality({sampleTokens[n].text : n \in words})
       /\ \A n \in words :
            sampleTokens[n].id
              = Cardinality({sampleTokens[m].text : m \in {q \in words : q <= first(n)}})

\* A text occurs twice around another one: ids 1, 2, 1.
C16_Witness ==
  /\ "simpleTokenize" \in measured
  /\ sample = <<"a", ",", "a">>
  /\ sampleTokens[1].id = 1
  /\ sampleTokens[2].id = 2
  /\ sampleTokens[3].id = 1

\* C17: approximateTokensFromText gives 0 for the empty string and
\* max(1, ceil(utf8ByteLength / 4)) for every other text, wherever it runs.
C17_ApproximateTokensFromBytes ==
  "approximateTokensFromText" \in measured =>
    sampleApprox = IF sample = <<>> THEN 0
                   ELSE IF (Len(Utf8(sample)) + 3) \div 4 > 1
                        THEN (Len(Utf8(sample)) + 3) \div 4
                        ELSE 1

\* C18: calculateCounts gives chars = the string's length and bytes = its
\* UTF-8 encoded length for every string, wherever it runs.
C18_CountsAreLengthAndUtf8Bytes ==
  "calculateCounts" \in measured =>
    /\ sampleCounts.chars = JsLength(sample)
    /\ sampleCounts.bytes = Len(Utf8(sample))

\* The bare-word rule as the specification states it: one or more ASCII
\* letters, digits, underscores or hyphens, whose lowercased form is none of
\* true, false, null, yes, no, on, off, ~.
SafeBareWord(str) ==
  /\ str # <<>>
  /\ \A i \in 1..Len(str) : IsLetter(str[i]) \/ IsDigit(str[i]) \/ str[i] \in {"_", "-"}
  /\ ToLowerCase(str) \notin { <<"t", "r", "u", "e">>, <<"f", "a", "l", "s", "e">>,
                                <<"n", "u", "l", "l">>, <<"y", "e", "s">>, <<"n", "o">>,
                                <<"o", "n">>, <<"o", "f", "f">>, <<"~">> }

\* A leaf string as the specification wants it in token-aware JSON.
BareLeaf(str) == IF SafeBareWord(str) THEN str ELSE JSONString(str)

\* Standard minified JSON in which only the bare-word leaf strings have lost
\* their quotes.
RECURSIVE BareLeavesMin(_)
BareLeavesMin(v) ==
  IF v.t = "str" THEN BareLeaf(v.s)
  ELSE IF v.t = "arr" THEN
    <<"[">> \o Join([i \in 1..Len(v.a) |-> BareLeavesMin(v.a[i])], <<",">>) \o <<"]">>
  ELSE IF v.t = "obj" THEN
    <<"{">> \o Join([i \in 1..Len(v.o) |->
                      JSONString(v.o[i].k) \o <<":">> \o BareLeavesMin(v.o[i].v)], <<",">>)
    \o <<"}">>
  ELSE PrimText(v)

\* Standard two-space JSON in which only the bare-word leaf strings have lost
\* their quotes.
RECURSIVE BareLeavesPretty(_, _)
BareLeavesPretty(v, d) ==
  IF v.t = "str" THEN BareLeaf(v.s)
  ELSE IF v.t = "arr" THEN
    IF v.a = <<>> THEN <<"[", "]">>
    ELSE <<"[", "\n">>
         \o Join([i \in 1..Len(v.a) |-> Spaces(d + 1) \o BareLeavesPretty(v.a[i], d + 1)],
                 <<",", "\n">>)
         \o <<"\n">> \o Spaces(d) \o <<"]">>
  ELSE IF v.t = "obj" THEN
    IF v.o = <<>> THEN <<"{", "}">>
    ELSE <<"{", "\n">>
         \o Join([i \in 1..Len(v.o) |->
                   Spaces(d + 1) \o JSONString(v.o[i].k) \o <<":", " ">>
                   \o BareLeavesPretty(v.o[i].v, d + 1)],
                 <<",", "\n">>)
         \o <<"\n">> \o Spaces(d) \o <<"}">>
  ELSE PrimText(v)

\* C19: in token-aware mode a string value, alone or as the value of a key,
\* is emitted without quotes iff it satisfies the bare-word rule, and quoted
\* as in standard JSON otherwise, by the JSON converter and by the YAML
\* converter alike, so that both unquote the same strings.
C19_SameBareWordsInJsonAndYaml ==
  showTokenAware =>
    /\ sampleValue.t = "str" =>
         LET bare == BareLeaf(sampleValue.s)
         IN /\ "pretty" \in converted => awarePretty = bare
            /\ "minified" \in converted => awareMinified = bare
            /\ "yaml" \in converted => awareYaml = bare
            /\ {"minified", "yaml"} \subseteq converted =>
                 (Head(awareMinified) = "\"" <=> Head(awareYaml) = "\"")
    /\ (sampleValue.t = "obj" /\ Len(sampleValue.o) = 1 /\ sampleValue.o[1].v.t = "str"
        /\ sampleValue.o[1].k = <<"k">>) =>
         LET bare == BareLeaf(sampleValue.o[1].v.s)
         IN /\ "minified" \in converted =>
                 awareMinified = <<"{", "\"", "k", "\"", ":">> \o bare \o <<"}">>
            /\ "yaml" \in converted => awareYaml = <<"k", ":", " ">> \o bare

\* C20: token-aware jsonStringify output is the standard output in which only
\* the leaf strings satisfying the bare-word rule have lost their quotes;
\* without token-aware mode it is the standard output.
C20_OnlyBareLeavesLoseQuotes ==
  /\ "pretty" \in converted =>
       awarePretty = IF showTokenAware THEN BareLeavesPretty(sampleValue, 0)
                     ELSE StringifyPretty(sampleValue, 0)
  /\ "minified" \in converted =>
       awareMinified = IF showTokenAware THEN BareLeavesMin(sampleValue)
                       ELSE StringifyMin(sampleValue)

\* Some string value inside v satisfies the bare-word rule.
RECURSIVE HasBareWord(_)
HasBareWord(v) ==
  IF v.t = "str" THEN SafeBareWord(v.s)
  ELSE IF v.t = "arr" THEN \E i \in 1..Len(v.a) : HasBareWord(v.a[i])
  ELSE IF v.t = "obj" THEN \E i \in 1..Len(v.o) : HasBareWord(v.o[i].v)
  ELSE FALSE

\* C21: parsing the minified JSON output gives back the parsed input, always
\* without token-aware mode, and in token-aware mode whenever the input holds
\* no string that satisfies the bare-word rule.
C21_MinifiedRoundTrips ==
  ("minified" \in converted /\ (~showTokenAware \/ ~HasBareWord(sampleValue))) =>
    /\ JSONParse(awareMinified).ok
    /\ JSONParse(awareMinified).val = sampleValue

\* ---- the layout of jsonToYamlLite's output

\* A scalar as YAML-lite writes it.
YamlScalar(v) == IF v.t = "str" THEN JSONString(v.s) ELSE PrimText(v)

\* v is a non-empty object whose values are scalars or such objects.
RECURSIVE NestedObjects(_)
NestedObjects(v) ==
  /\ v.t = "obj"
  /\ v.o # <<>>
  /\ \A i \in 1..Len(v.o) : IsScalar(v.o[i].v) \/ NestedObjects(v.o[i].v)

\* The rendering the specification gives such an object at nesting depth d:
\* every line at depth d carries 2*d spaces.
RECURSIVE YamlAtDepth(_, _)
YamlAtDepth(v, d) ==
  Join([i \in 1..Len(v.o) |->
         IF IsScalar(v.o[i].v)
         THEN Spaces(d) \o v.o[i].k \o <<":", " ">> \o YamlScalar(v.o[i].v)
         ELSE Spaces(d) \o v.o[i].k \o <<":", "\n">> \o YamlAtDepth(v.o[i].v, d + 1)],
       <<"\n">>)

\* C22: for a non-empty object, a key with a scalar value is rendered as
\* `key: value` on one line and a key with a nested object as `key:` followed
\* by the nested rendering one level (two spaces) deeper, so that a line at
\* nesting depth d carries 2*d spaces.
C22_NestedValueOneLevelDeeper ==
  ("yamlLite" \in converted /\ NestedObjects(sampleValue)) =>
    yamlLite = YamlAtDepth(sampleValue, 0)

\* C23: the empty array is rendered as `[]` and the empty object as `{}`, at
\* the root and, as the value of an object key, on the key's own line.
C23_EmptyContainersInline ==
  "yamlLite" \in converted =>
    /\ sampleValue = [t |-> "arr", a |-> <<>>] => yamlLite = <<"[", "]">>
    /\ sampleValue = [t |-> "obj", o |-> <<>>] => yamlLite = <<"{", "}">>
    /\ sampleValue.t = "obj" =>
         \A i \in 1..Len(sampleValue.o) :
           /\ sampleValue.o[i].v = [t |-> "arr", a |-> <<>>] =>
                \E n \in 1..Len(SplitNl(yamlLite)) :
                  SplitNl(yamlLite)[n] = sampleValue.o[i].k \o <<":", " ", "[", "]">>
           /\ sampleValue.o[i].v = [t |-> "obj", o |-> <<>>] =>
                \E n \in 1..Len(SplitNl(yamlLite)) :
                  SplitNl(yamlLite)[n] = sampleValue.o[i].k \o <<":", " ", "{", "}">>

\* An array element whose own rendering is r: the first line of r follows
\* the dash, every further line of r is placed below with two more spaces.
ElementLines(r, indent) ==
  Spaces(indent) \o <<"-", " ">> \o SplitNl(r)[1]
  \o Concat([j \in 1..(Len(SplitNl(r)) - 1) |-> <<"\n", " ", " ">> \o SplitNl(r)[j + 1]])

\* text lays out the non-empty array v at the given indent, and so do the
\* renderings of the non-empty arrays among its elements, one level deeper.
RECURSIVE ArrayLayout(_, _, _)
ArrayLayout(v, indent, text) ==
  /\ text = Join([i \in 1..Len(v.a) |->
                   ElementLines(jsonToYamlLite(v.a[i], indent + 1), indent)],
                 <<"\n">>)
  /\ \A i \in 1..Len(v.a) :
       (v.a[i].t = "arr" /\ v.a[i].a # <<>>) =>
         ArrayLayout(v.a[i], indent + 1, jsonToYamlLite(v.a[i], indent + 1))

\* C24: in the rendering of a non-empty array every element starts a line of
\* its own with `- ` at the array's indent; the first line of the element's
\* rendering follows the dash directly, and each further line of it is placed
\* below, indented by two more spaces.
C24_ArrayElementsOnDashLines ==
  ("yamlLite" \in converted /\ sampleValue.t = "arr" /\ sampleValue.a # <<>>) =>
    ArrayLayout(sampleValue, 0, yamlLite)

\* An array holding a two-key object has been rendered on two lines.
C24_Witness ==
  /\ "yamlLite" \in converted
  /\ sampleValue = [t |-> "arr",
                    a |-> <<[t |-> "obj",
                             o |-> <<[k |-> <<"a">>, v |-> [t |-> "num", n |-> 1]],
                                     [k |-> <<"b">>, v |-> [t |-> "num", n |-> 2]]>>]>>]
  /\ yamlLite = <<"-", " ", " ", " ", "a", ":", " ", "1", "\n",
                  " ", " ", " ", " ", "b", ":", " ", "2">>

\* ---- the token count shown for a format (page.tsx 250..388)

\* The approximate measures of the output texts, computed once: the
\* approximate count, and simpleTokenize's tokens counted as the render counts
\* them (all, those with an id, those with an id or a non-blank text).
MeasureTable ==
  [txt \in UNION {{TextsOf(OutputTable[a])[k] : k \in Kinds} : a \in DOMAIN OutputTable} |->
     [approx |-> approximateTokensFromText(txt, "object"),
      all |-> Len(simpleTokenize(txt)),
      withId |-> Len(SelectSeq(simpleTokenize(txt), LAMBDA t : t.id # NullId)),
      toonChunks |-> Len(SelectSeq(simpleTokenize(txt),
                                   LAMBDA t : t.id # NullId \/ ~IsBlank(t.text)))]]

\* prettyTokenCount .. toonTokenCount
BaseCount(kind, txt) ==
  IF kind = "toon" THEN MeasureTable[txt].toonChunks ELSE MeasureTable[txt].approx

\* if (showTokens) { counts.tokens = tokens.filter((t) => t.id).length }, for
\* toon tokens.length, over the tokens the render shows.
ShownCount(kind, txt) ==
  IF ~showTokens THEN BaseCount(kind, txt)
  ELSE IF TokenSource(kind) = "exact"
  THEN IF kind = "toon" THEN Len(exactTokens[kind])
       ELSE Len(SelectSeq(exactTokens[kind], LAMBDA t : t.id # 0))
  ELSE IF kind = "toon" THEN MeasureTable[txt].all
  ELSE MeasureTable[txt].withId

\* exactTokens[kind], [] standing for a format the object does not have.
Held(kind) == IF kind \in DOMAIN exactTokens THEN exactTokens[kind] ELSE <<>>

\* A reconciliation that keeps the count it is given.
ReconcileNever(model, held, count) == count

\* if (tokenizationModel === "cl100k_base") { if (exactTokens.x &&
\* exactTokens.x.length > 0) counts.tokens = exactTokens.x.length }
Reconcile(model, held, count) ==
  IF model = "cl100k_base" /\ held # <<>> THEN Len(held) ELSE count

\* The tokens figure of a format's TokenCounts after the render.
TokenCount(kind) ==
  Reconcile(tokenizationModel, Held(kind), ShownCount(kind, TextsOf(memo)[kind]))

\* C25: with model cl100k_base and a non-empty exact token list held for a
\* format, the token count shown for it is the length of that list, with
\* showTokens on or off; a format the held result does not have keeps a count
\* taken from the approximate tokenizer.
C25_ExactCountReplacesApproximate ==
  \A kind \in Kinds :
    /\ (tokenizationModel = "cl100k_base" /\ kind \in DOMAIN exactTokens
        /\ exactTokens[kind] # <<>>) =>
         TokenCount(kind) = Len(exactTokens[kind])
    /\ kind \notin DOMAIN exactTokens =>
         TokenCount(kind) =
           IF ~showTokens THEN BaseCount(kind, TextsOf(memo)[kind])
           ELSE IF kind = "toon" THEN MeasureTable[TextsOf(memo)[kind]].all
           ELSE MeasureTable[TextsOf(memo)[kind]].withId

\* With showTokens off, the exact result of the current outputs is held and
\* the count shown for pretty JSON is its length, not the approximate count.
C25_Witness ==
  /\ ~showTokens
  /\ tokenizationModel = "cl100k_base"
  /\ exactTokens = Response(TextsOf(memo))
  /\ TokenCount("pretty") = Len(exactTokens["pretty"])
  /\ TokenCount("pretty") # BaseCount("pretty", memo.prettyJson)

\* C26: every token list held in exactTokens is the tokenization of its
\* format's current output, so no count and no shown token comes from a
\* result computed for earlier outputs.
C26_HeldTokensAreOfCurrentOutputs ==
  \A kind \in DOMAIN exactTokens :
    exactTokens[kind] = Response(TextsOf(memo))[kind]

\* C27: isTokenizing is true iff some issued request has neither returned nor
\* been cancelled; after a guard path it is false, and the return of a
\* cancelled request leaves it as it is.
C27_IsTokenizingTracksLiveRequest ==
  /\ isTokenizing <=> \E r \in 1..Len(requests) : ~requests[r].cancelled
  /\ cleanup = 0 => ~isTokenizing

\* A cancelled request has returned while its successor is still pending,
\* and isTokenizing is still true.
C27_Witness ==
  /\ staleSettled # "none"
  /\ isTokenizing
  /\ Len(requests) = 1
  /\ ~requests[1].cancelled

\* C28: the TOON output is toToonEncoding of the current parsed input with
\* the delimiter and the key folding currently selected (the empty text when
\* the encoder failed).
C28_ToonFollowsOptions ==
  (~IsBlank(input) /\ ParseTable[input].ok) =>
    \E toonThrows \in BOOLEAN :
      memo.toon = toToonEncoding(ParseTable[input].val, toonDelimiter, toonKeyFolding,
                                 toonThrows).text

\* C30: while tokenizeError is non-empty exactTokens is empty; a request that
\* can still write tokens (issued, not cancelled, not returned) reset
\* tokenizeError when it was issued, and no error has been written since.
C30_ErrorExcludesTokens ==
  /\ tokenizeError # "" => exactTokens = NoTokens
  /\ (\E r \in 1..Len(requests) : ~requests[r].cancelled) => tokenizeError = ""

\* The second request failed: the error is shown and no tokens are held.
C30_Witness ==
  /\ issued = 2
  /\ tokenizeError = NetworkError.message
  /\ exactTokens = NoTokens
  /\ ~isTokenizing

\* ---- the requests settle

\* A pending run() goes on after an await: fetch() or res.json() settled.
Settles ==
  \/ \E r \in 1..MaxRequests, ok \in BOOLEAN : FetchResolves(r, ok)
  \/ \E r \in 1..MaxRequests, err \in {AbortError, NetworkError} : FetchRejects(r, err)
  \/ \E r \in 1..MaxRequests, e \in {"", "Tokenization failed"} : NotOkBodySettles(r, e)
  \/ \E r \in 1..MaxRequests, hasTokens \in BOOLEAN : OkBodySettles(r, hasTokens)
  \/ \E r \in 1..MaxRequests, err \in {AbortError, BodySyntaxError} : OkBodyRejects(r, err)

\* Every fetch() and every res.json() settles, with a response or a failure,
\* and the event loop then runs the continuation of run().
SpecLive == Spec /\ WF_vars(Settles)

\* Every request has returned and the page shows the outcome of the latest
\* effect run: the tokens of the current outputs (none when the answer had
\* none or a guard applied), or an error and no tokens.
Settled ==
  /\ requests = <<>>
  /\ ~isTokenizing
  /\ \/ tokenizeError = "" /\ exactTokens \in {Response(TextsOf(memo)), NoTokens}
     \/ tokenizeError # "" /\ exactTokens = NoTokens

====
